---- MODULE Spec2Model ----
(***************************************************************************)
(* Model of app/src/main/cpp/native-lib.cpp: the JNI entry point           *)
(*   Java_com_auraframes_fx_MainActivity_stringFromJNI(JNIEnv*, jobject)   *)
(* together with the parts of the host it touches: the resolution of the   *)
(* exported symbol from the managed method, the native allocator behind    *)
(* std::string, and JNIEnv::NewStringUTF with the managed heap.            *)
(*                                                                         *)
(* Text is modelled by what the code stores: the string literal is a       *)
(* NUL-terminated array of bytes, std::string copies the bytes before the  *)
(* first NUL, c_str() exposes them NUL-terminated, NewStringUTF decodes    *)
(* Modified UTF-8 up to the first NUL into UTF-16 code units.              *)
(*                                                                         *)
(* The native allocation of line 18 is taken to succeed (operator new      *)
(* returns); the failure of the managed allocation inside NewStringUTF is  *)
(* modelled.                                                               *)
(***************************************************************************)
EXTENDS Integers, Sequences, FiniteSets, TLC

\* ------------------------------------------------------------------ bounds
NumThreads == 2
MaxCalls == 2

Threads == 1..NumThreads
\* native heap cells; a thread holds at most one buffer, so malloc always finds one
Addrs == 1..NumThreads
\* objects the managed caller can pass as `this`
Objects == {"activityA", "activityB"}

NULL == 0
NoBuf == 0
Free == <<-1>>

\* ------------------------------------------------------- symbol resolution
\* Names are sequences of tokens: a maximal run of letters is one token (the
\* mangling maps letters to themselves), "." and "_" are tokens of their own.
Words == <<"com", "auraframes", "fx", "MainActivity", "stringFromJNI">>

\* line 17: the symbol the library exports
ExportedSymbol ==
  <<"Java", "_", "com", "_", "auraframes", "_", "fx", "_", "MainActivity", "_", "stringFromJNI">>

\* the managed method the symbol is written for
CallerType == <<"com", ".", "auraframes", ".", "fx", ".", "MainActivity">>
CallerMethod == <<"stringFromJNI">>

\* A mangling that does not escape the literal underscore.
MangleTokenNoEscape(c) ==
  IF c = "." THEN <<"_">> ELSE <<c>>

\* lines 7-8: a package separator becomes "_", a literal underscore "_1"
MangleToken(c) ==
  IF c = "." THEN <<"_">>
  ELSE IF c = "_" THEN <<"_", "1">>
  ELSE <<c>>

RECURSIVE MangleName(_)
MangleName(name) ==
  IF name = <<>> THEN <<>>
  ELSE MangleToken(Head(name)) \o MangleName(Tail(name))

\* line 7: Java_<qualified type>_<method>
Mangle(type, method) ==
  <<"Java", "_">> \o MangleName(type) \o <<"_">> \o MangleName(method)

RECURSIVE Join(_, _)
\* the words ws joined by the joiners js (Len(js) = Len(ws) - 1)
Join(ws, js) ==
  IF Len(ws) <= 1 THEN ws
  ELSE <<Head(ws), Head(js)>> \o Join(Tail(ws), Tail(js))

\* The native methods a managed caller can declare over the words of the
\* symbol: the first k words make the qualified type (joined by "." or "_"),
\* the rest make the method name (an identifier: joined by "_").
NativeMethods ==
  UNION { { <<Join(SubSeq(Words, 1, k), js),
              Join(SubSeq(Words, k + 1, Len(Words)), [i \in 1..(Len(Words) - k - 1) |-> "_"])>> :
            js \in [1..(k - 1) -> {".", "_"}] } :
          k \in 1..(Len(Words) - 1) }

\* ----------------------------------------------------------------- text
\* line 18: the literal "Hello from Genesis C++ Core" as the compiler stores it
HelloLiteralOther ==
  <<72, 101, 108, 108, 111, 32, 102, 114, 111, 109, 32, 67, 43, 43, 0>>

HelloLiteral ==
  <<72, 101, 108, 108, 111, 32, 102, 114, 111, 109, 32,
    71, 101, 110, 101, 115, 105, 115, 32, 67, 43, 43, 32, 67, 111, 114, 101, 0>>

RECURSIVE UntilNul(_)
\* the bytes of a C string before its first NUL (strlen / the scan of a reader)
UntilNul(mem) ==
  IF mem = <<>> \/ Head(mem) = 0 THEN <<>>
  ELSE <<Head(mem)>> \o UntilNul(Tail(mem))

\* line 18: std::string(const char*) copies strlen bytes; the buffer keeps a
\* terminating NUL, which is what c_str() points at
StdString(lit) == UntilNul(lit) \o <<0>>

RECURSIVE DecodeModUTF8(_)
\* NewStringUTF: Modified UTF-8 bytes to UTF-16 code units
DecodeModUTF8(bs) ==
  IF bs = <<>> THEN <<>>
  ELSE IF bs[1] < 128 THEN <<bs[1]>> \o DecodeModUTF8(Tail(bs))
  ELSE IF bs[1] \div 32 = 6 /\ Len(bs) >= 2
    THEN <<(bs[1] % 32) * 64 + (bs[2] % 64)>> \o DecodeModUTF8(SubSeq(bs, 3, Len(bs)))
  ELSE IF bs[1] \div 16 = 14 /\ Len(bs) >= 3
    THEN <<(bs[1] % 16) * 4096 + (bs[2] % 64) * 64 + (bs[3] % 64)>>
         \o DecodeModUTF8(SubSeq(bs, 4, Len(bs)))
  ELSE <<65533>> \o DecodeModUTF8(Tail(bs))

\* what a read through a char pointer can see: the bytes of a live buffer, or
\* anything at all once the buffer has been released
ReadCStr(nh, p) ==
  IF p \in Addrs /\ nh[p] # Free THEN {UntilNul(nh[p])}
  ELSE {<<>>, <<63>>}

\* ---------------------------------------------------------------- state
VARIABLES
  pc,          \* pc[t]: "managed", or the line of the bridge thread t is at
  frame,       \* frame[t]: the activation record of thread t's invocation
  env,         \* env[t]: the exception pending in thread t's JNIEnv
  nativeHeap,  \* the native heap: Free, or the bytes of a buffer
  heap,        \* the managed heap: the strings constructed so far, by object id
  results,     \* what the managed callers got back, in order of return
  objFields,   \* the fields of the objects passed as `this`
  ioLog,       \* the I/O performed by the process
  calls,       \* native-method calls made so far
  linkErrors   \* calls that did not resolve to the exported symbol

vars == <<pc, frame, env, nativeHeap, heap, results, objFields, ioLog, calls, linkErrors>>

NoFrame ==
  [method |-> <<>>, thiz |-> "none", hello |-> NoBuf, arg |-> NoBuf, utf |-> NULL,
   allocs |-> 0, ncalls |-> 0, objs |-> 0]

Init ==
  /\ pc = [t \in Threads |-> "managed"]
  /\ frame = [t \in Threads |-> NoFrame]
  /\ env = [t \in Threads |-> "none"]
  /\ nativeHeap = [a \in Addrs |-> Free]
  /\ heap = <<>>
  /\ results = <<>>
  /\ objFields = [o \in Objects |-> 0]
  /\ ioLog = <<>>
  /\ calls = 0
  /\ linkErrors = 0

\* -------------------------------------------------------------- actions
\* The managed caller on thread t calls the native method m on object o and
\* the runtime finds the exported symbol for it (line 17: entry).
Invoke(t, m, o) ==
  /\ pc[t] = "managed"
  /\ calls < MaxCalls
  /\ Mangle(m[1], m[2]) = ExportedSymbol
  /\ calls' = calls + 1
  /\ pc' = [pc EXCEPT ![t] = "L18"]
  /\ frame' = [frame EXCEPT ![t] = [NoFrame EXCEPT !.thiz = o, !.method = m]]
  /\ UNCHANGED <<env, nativeHeap, heap, results, objFields, ioLog, linkErrors>>

\* The runtime finds no symbol for m: UnsatisfiedLinkError, the bridge does not run.
InvokeUnlinked(t, m, o) ==
  /\ pc[t] = "managed"
  /\ calls < MaxCalls
  /\ Mangle(m[1], m[2]) # ExportedSymbol
  /\ calls' = calls + 1
  /\ linkErrors' = linkErrors + 1
  /\ UNCHANGED <<pc, frame, env, nativeHeap, heap, results, objFields, ioLog>>

\* The text kept in one buffer shared by all invocations (a static std::string).
ConstructHelloStatic(t) ==
  /\ pc[t] = "L18"
  /\ nativeHeap' = [nativeHeap EXCEPT ![1] = StdString(HelloLiteral)]
  /\ frame' = [frame EXCEPT ![t].hello = 1, ![t].allocs = @ + 1]
  /\ pc' = [pc EXCEPT ![t] = "L19"]
  /\ UNCHANGED <<env, heap, results, objFields, ioLog, calls, linkErrors>>

\* line 18: std::string hello = "Hello from Genesis C++ Core";
ConstructHello(t) ==
  /\ pc[t] = "L18"
  /\ \E a \in {x \in Addrs : nativeHeap[x] = Free} :
       /\ nativeHeap' = [nativeHeap EXCEPT ![a] = StdString(HelloLiteral)]
       /\ frame' = [frame EXCEPT ![t].hello = a, ![t].allocs = @ + 1]
  /\ pc' = [pc EXCEPT ![t] = "L19"]
  /\ UNCHANGED <<env, heap, results, objFields, ioLog, calls, linkErrors>>

\* The call preceded by a log line.
CallNewStringUTFLogging(t) ==
  /\ pc[t] = "L19"
  /\ frame' = [frame EXCEPT ![t].arg = frame[t].hello, ![t].ncalls = @ + 1]
  /\ ioLog' = Append(ioLog, "stringFromJNI")
  /\ pc' = [pc EXCEPT ![t] = "inUTF"]
  /\ UNCHANGED <<env, nativeHeap, heap, results, objFields, calls, linkErrors>>

\* line 19: hello.c_str() is evaluated and env->NewStringUTF is entered
CallNewStringUTF(t) ==
  /\ pc[t] = "L19"
  /\ frame' = [frame EXCEPT ![t].arg = frame[t].hello, ![t].ncalls = @ + 1]
  /\ pc' = [pc EXCEPT ![t] = "inUTF"]
  /\ UNCHANGED <<env, nativeHeap, heap, results, objFields, ioLog, calls, linkErrors>>

\* The string constructed once and handed out again to later invocations.
NewStringUTFOkCached(t) ==
  /\ pc[t] = "inUTF"
  /\ \E bytes \in ReadCStr(nativeHeap, frame[t].arg) :
       LET s == DecodeModUTF8(bytes)
           old == {i \in 1..Len(heap) : heap[i] = s}
       IN  IF old = {}
             THEN /\ heap' = Append(heap, s)
                  /\ frame' = [frame EXCEPT ![t].utf = Len(heap) + 1, ![t].objs = @ + 1]
             ELSE /\ heap' = heap
                  /\ frame' = [frame EXCEPT ![t].utf = CHOOSE i \in old : TRUE]
  /\ pc' = [pc EXCEPT ![t] = "L20"]
  /\ UNCHANGED <<env, nativeHeap, results, objFields, ioLog, calls, linkErrors>>

\* line 19: NewStringUTF constructs a new java.lang.String from the bytes and
\* returns a reference to it
NewStringUTFOk(t) ==
  /\ pc[t] = "inUTF"
  /\ \E bytes \in ReadCStr(nativeHeap, frame[t].arg) :
       heap' = Append(heap, DecodeModUTF8(bytes))
  /\ frame' = [frame EXCEPT ![t].utf = Len(heap) + 1, ![t].objs = @ + 1]
  /\ pc' = [pc EXCEPT ![t] = "L20"]
  /\ UNCHANGED <<env, nativeHeap, results, objFields, ioLog, calls, linkErrors>>

\* The call made again when it returned NULL.
NewStringUTFFailRetry(t) ==
  /\ pc[t] = "inUTF"
  /\ frame' = [frame EXCEPT ![t].utf = NULL, ![t].ncalls = 0]
  /\ env' = [env EXCEPT ![t] = "OutOfMemoryError"]
  /\ pc' = [pc EXCEPT ![t] = "L19"]
  /\ UNCHANGED <<nativeHeap, heap, results, objFields, ioLog, calls, linkErrors>>

\* line 19: NewStringUTF cannot allocate: it returns NULL with an
\* OutOfMemoryError pending in the thread
NewStringUTFFail(t) ==
  /\ pc[t] = "inUTF"
  /\ frame' = [frame EXCEPT ![t].utf = NULL]
  /\ env' = [env EXCEPT ![t] = "OutOfMemoryError"]
  /\ pc' = [pc EXCEPT ![t] = "L20"]
  /\ UNCHANGED <<nativeHeap, heap, results, objFields, ioLog, calls, linkErrors>>

\* A null reference returned whatever the call produced.
ReturnedRefNull(t) == NULL

\* An earlier string returned in place of a failed call's NULL.
ReturnedRefOrFirst(t) ==
  IF frame[t].utf = NULL /\ Len(heap) > 0 THEN 1 ELSE frame[t].utf

\* line 19: return env->NewStringUTF(...): the value of the call, as it is
ReturnedRef(t) == frame[t].utf

\* The buffer never given back.
ReleaseLeak(nh, a) == nh

\* line 20: ~basic_string gives the buffer back to the allocator
Release(nh, a) == [nh EXCEPT ![a] = Free]

\* lines 19-20: hello is destroyed, the value of the call is returned; the
\* runtime hands the managed caller the reference, or raises the pending exception
Return(t) ==
  /\ pc[t] = "L20"
  /\ nativeHeap' = Release(nativeHeap, frame[t].hello)
  /\ results' = Append(results,
       [thread |-> t, ret |-> ReturnedRef(t), utf |-> frame[t].utf,
        text |-> IF ReturnedRef(t) = NULL THEN <<>> ELSE heap[ReturnedRef(t)],
        exc |-> env[t], ncalls |-> frame[t].ncalls,
        allocs |-> frame[t].allocs, objs |-> frame[t].objs])
  /\ env' = [env EXCEPT ![t] = "none"]
  /\ frame' = [frame EXCEPT ![t] = NoFrame]
  /\ pc' = [pc EXCEPT ![t] = "managed"]
  /\ UNCHANGED <<heap, objFields, ioLog, calls, linkErrors>>

BridgeStep(t) ==
  \/ ConstructHello(t)
  \/ CallNewStringUTF(t)
  \/ NewStringUTFOk(t)
  \/ NewStringUTFFail(t)
  \/ Return(t)

Next ==
  \/ \E t \in Threads, m \in NativeMethods, o \in Objects : Invoke(t, m, o)
  \/ \E t \in Threads, m \in NativeMethods, o \in Objects : InvokeUnlinked(t, m, o)
  \/ \E t \in Threads : ConstructHello(t)
  \/ \E t \in Threads : CallNewStringUTF(t)
  \/ \E t \in Threads : NewStringUTFOk(t)
  \/ \E t \in Threads : NewStringUTFFail(t)
  \/ \E t \in Threads : Return(t)

Spec == Init /\ [][Next]_vars

\* The bridge's own steps and the host's NewStringUTF are each taken once enabled.
FairSpec == Spec /\ \A t \in Threads : WF_vars(BridgeStep(t))

TypeOK ==
  /\ pc \in [Threads -> {"managed", "L18", "L19", "inUTF", "L20"}]
  /\ calls \in 0..MaxCalls
  /\ Len(results) + linkErrors <= calls

\* ---------------------------------------------------------- properties
\* "Hello from Genesis C++ Core" as the UTF-16 code units of a managed string
GreetingText ==
  <<72, 101, 108, 108, 111, 32, 102, 114, 111, 109, 32,
    71, 101, 110, 101, 115, 105, 115, 32, 67, 43, 43, 32, 67, 111, 114, 101>>

Returned == 1..Len(results)
InBridge(t) == pc[t] # "managed"
Live(a) == nativeHeap[a] # Free

\* C1: whenever NewStringUTF succeeded, the string the invocation returns (has
\* returned, or is about to return at line 20) reads exactly
\* "Hello from Genesis C++ Core", whatever `this` was and whatever came before.
C1_ReturnsGreeting ==
  /\ \A i \in Returned :
       results[i].utf # NULL =>
         /\ results[i].ret \in 1..Len(heap)
         /\ results[i].text = GreetingText
         /\ heap[results[i].ret] = GreetingText
  /\ \A t \in Threads :
       (pc[t] = "L20" /\ frame[t].utf # NULL) =>
         /\ ReturnedRef(t) \in 1..Len(heap)
         /\ heap[ReturnedRef(t)] = GreetingText

\* an invocation on the second caller object is about to return the greeting
\* after an earlier invocation has failed
C1_Witness ==
  /\ Len(results) = 1
  /\ results[1].exc # "none"
  /\ \E t \in Threads :
       /\ pc[t] = "L20" /\ frame[t].thiz = "activityB"
       /\ frame[t].utf # NULL /\ heap[ReturnedRef(t)] = GreetingText

\* C2: when NewStringUTF fails, the invocation has called it exactly once,
\* constructed no string, written no message, and returns exactly the NULL the
\* call returned, the host's OutOfMemoryError being the only error raised.
C2_FailurePropagated ==
  /\ \A i \in Returned :
       results[i].exc # "none" =>
         /\ results[i].ncalls = 1
         /\ results[i].ret = results[i].utf
         /\ results[i].ret = NULL
         /\ results[i].objs = 0
         /\ results[i].exc = "OutOfMemoryError"
  /\ \A t \in Threads : frame[t].ncalls <= 1
  /\ \A t \in Threads : (pc[t] = "L20" /\ env[t] # "none") => ReturnedRef(t) = NULL
  /\ ioLog = <<>>

\* a failed invocation has returned after a string had already been constructed
C2_Witness ==
  \E i \in Returned :
    /\ results[i].exc = "OutOfMemoryError"
    /\ results[i].ret = NULL
    /\ Len(heap) > 0

\* C3 as stated: the results of a thread's invocations (which are sequential)
\* are all strings, equal to each other and pairwise distinct objects.
C3_Original ==
  \A i, j \in Returned :
    results[i].thread = results[j].thread =>
      /\ results[i].ret # NULL
      /\ i # j => /\ results[i].ret # results[j].ret
                  /\ results[i].text = results[j].text

\* C3 amended: the invocations in which NewStringUTF succeeded returned equal
\* strings that are pairwise distinct objects, each constructed by its own
\* invocation and still reading what it read when it was returned.
C3_EqualDistinct ==
  \A i \in Returned :
    results[i].exc = "none" =>
      /\ results[i].ret \in 1..Len(heap)
      /\ results[i].objs = 1
      /\ heap[results[i].ret] = results[i].text
      /\ \A j \in Returned :
           (j # i /\ results[j].exc = "none") =>
             /\ results[j].ret # results[i].ret
             /\ heap[results[j].ret] = heap[results[i].ret]

\* one thread has made MaxCalls invocations in a row, all successful
C3_Witness ==
  /\ Len(results) = MaxCalls
  /\ \A i \in Returned : results[i].thread = 1 /\ results[i].exc = "none"
  /\ Cardinality({results[i].ret : i \in Returned}) = MaxCalls

\* C4 as stated: of two invocations in flight on different threads, each can
\* take a step, each has a buffer of its own and passes NewStringUTF that buffer,
\* and each returns a string reading the greeting.
C4_Original ==
  \A t, u \in Threads :
    (t # u /\ InBridge(t) /\ InBridge(u)) =>
      /\ ENABLED BridgeStep(t)
      /\ frame[t].hello # NoBuf => frame[t].hello # frame[u].hello
      /\ pc[t] = "inUTF" => (frame[t].arg = frame[t].hello /\ frame[t].arg # frame[u].hello)
      /\ pc[t] = "L20" =>
           (ReturnedRef(t) # NULL /\ heap[ReturnedRef(t)] = GreetingText
            /\ ReturnedRef(t) # frame[u].utf)

\* C4 amended: the same, the greeting being returned by the invocations in
\* which NewStringUTF succeeded.
C4_Concurrent ==
  \A t, u \in Threads :
    (t # u /\ InBridge(t) /\ InBridge(u)) =>
      /\ ENABLED BridgeStep(t)
      /\ frame[t].hello # NoBuf => frame[t].hello # frame[u].hello
      /\ pc[t] = "inUTF" => (frame[t].arg = frame[t].hello /\ frame[t].arg # frame[u].hello)
      /\ (pc[t] = "L20" /\ env[t] = "none") =>
           (ReturnedRef(t) # NULL /\ heap[ReturnedRef(t)] = GreetingText
            /\ ReturnedRef(t) # frame[u].utf)

\* two invocations are at line 20 together, each holding its own string
C4_Witness ==
  \E t, u \in Threads :
    /\ t # u
    /\ pc[t] = "L20" /\ pc[u] = "L20"
    /\ env[t] = "none" /\ env[u] = "none"
    /\ frame[t].hello # frame[u].hello
    /\ heap[frame[t].utf] = GreetingText /\ heap[frame[u].utf] = GreetingText

\* C5: an invocation whose string construction did not fail returns a
\* reference that is not null and names a string of the managed heap.
C5_NonNull ==
  /\ \A i \in Returned :
       results[i].exc = "none" =>
         (results[i].ret # NULL /\ results[i].ret \in DOMAIN heap)
  /\ \A t \in Threads :
       (pc[t] = "L20" /\ env[t] = "none") =>
         (ReturnedRef(t) # NULL /\ ReturnedRef(t) \in DOMAIN heap)

\* a successful invocation has returned a live reference
C5_Witness ==
  \E i \in Returned :
    /\ results[i].exc = "none"
    /\ results[i].ret \in DOMAIN heap
    /\ \E t \in Threads : pc[t] = "L20" /\ env[t] = "none"

\* C6: no step changes the fields of the caller objects or performs I/O, the
\* strings already on the managed heap stay as they are, and once every
\* invocation has returned the native heap is as it was at the start.
C6_Frame ==
  [][ /\ objFields' = objFields
      /\ ioLog' = ioLog
      /\ ioLog = <<>>
      /\ \A id \in DOMAIN heap : id \in DOMAIN heap' /\ heap'[id] = heap[id]
      /\ (\A t \in Threads : pc'[t] = "managed") =>
            (/\ nativeHeap' = [a \in Addrs |-> Free]
             /\ env' = [t \in Threads |-> "none"]
             /\ frame' = [t \in Threads |-> NoFrame]) ]_vars

\* MaxCalls invocations, made by different threads, have all returned
C6_Witness ==
  /\ Len(results) = MaxCalls
  /\ \A t \in Threads : pc[t] = "managed"
  /\ \E i, j \in Returned : results[i].thread # results[j].thread
  /\ ioLog = <<>>

\* C7: every invocation that has entered the bridge returns to its caller.
C7_Returns ==
  \A t \in Threads : (pc[t] # "managed") ~> (pc[t] = "managed")

\* an invocation has returned while another is inside NewStringUTF
C7_Witness ==
  /\ Len(results) >= 1
  /\ \E t \in Threads : pc[t] = "inUTF"

C9_BufferLifetime ==
  /\ \A i \in Returned : results[i].allocs = 1 /\ results[i].objs <= 1
  /\ \A t \in Threads :
       /\ pc[t] \in {"managed", "L18"} => frame[t].hello = NoBuf
       /\ pc[t] \in {"L19", "inUTF", "L20"} =>
            (frame[t].allocs = 1 /\ frame[t].hello \in Addrs /\ Live(frame[t].hello))
       /\ pc[t] = "inUTF" => (frame[t].arg = frame[t].hello /\ Live(frame[t].arg))
       /\ frame[t].objs <= 1
  /\ Cardinality({a \in Addrs : Live(a)})
       = Cardinality({t \in Threads : pc[t] \in {"L19", "inUTF", "L20"}})

\* an invocation whose NewStringUTF failed has returned and left no buffer, and
\* the only buffer in use is that of an invocation inside NewStringUTF
C9_Witness ==
  /\ \E i \in Returned : results[i].exc # "none" /\ results[i].allocs = 1
  /\ \E t \in Threads : pc[t] = "inUTF" /\ Live(frame[t].arg)
  /\ Cardinality({a \in Addrs : Live(a)}) = 1
====
